---- MODULE Spec2Model ----
(***************************************************************************)
(* Model of ColorRangeSelector                                             *)
(* (src/src/components/src/side-panel/layer-panel/color-range-selector.tsx)*)
(*                                                                         *)
(* JavaScript values are records [t, n, s]:                                *)
(*   t = "number"    : the number n / 10 (fixed point, one decimal digit)  *)
(*   t = "string"    : the string whose characters are the sequence s      *)
(*   t = "undefined" : undefined (also an array hole read by a template)   *)
(*   t = "null"      : null                                                *)
(*   t = "NaN"       : the number NaN                                      *)
(*   t = "TypeError" : a thrown TypeError, in place of a result            *)
(* Strings are sequences of one-character strings, so that template        *)
(* literals, String.split and parseInt are computed character by character.*)
(***************************************************************************)
EXTENDS Integers, Sequences, FiniteSets

\* ------------------------------------------------------------ bounds
\* largest step count (colorRangeConfig.steps) the store starts with
MaxSteps == 4
\* largest number of colors of the custom palette
MaxColors == 3
\* number of handler invocations explored from mount
MaxOps == 2

\* ------------------------------------------------------------ values
Num(n) == [t |-> "number", n |-> n, s |-> <<>>]
Str(s) == [t |-> "string", n |-> 0, s |-> s]
Undefined == [t |-> "undefined", n |-> 0, s |-> <<>>]
Null == [t |-> "null", n |-> 0, s |-> <<>>]
NaN == [t |-> "NaN", n |-> 0, s |-> <<>>]

\* whole numbers are written Whole(k): k * 10 tenths
Whole(k) == Num(k * 10)

Digits == <<"0", "1", "2", "3", "4", "5", "6", "7", "8", "9">>
IsDigit(c) == \E d \in 1..10 : Digits[d] = c
DigitVal(c) == (CHOOSE d \in 1..10 : Digits[d] = c) - 1
Abs(x) == IF x < 0 THEN -x ELSE x

RECURSIVE NatToString(_)
NatToString(k) ==
  IF k < 10 THEN <<Digits[k + 1]>>
  ELSE NatToString(k \div 10) \o <<Digits[(k % 10) + 1]>>

\* Number.prototype.toString for a number given in tenths
NumberToString(n) ==
  (IF n < 0 THEN <<"-">> ELSE <<>>)
    \o NatToString(Abs(n) \div 10)
    \o (IF Abs(n) % 10 = 0 THEN <<>> ELSE <<".", Digits[(Abs(n) % 10) + 1]>>)

\* the string a template literal `${v}` produces
TemplateString(v) ==
  CASE v.t = "number" -> NumberToString(v.n)
    [] v.t = "string" -> v.s
    [] v.t = "undefined" -> <<"u", "n", "d", "e", "f", "i", "n", "e", "d">>
    [] v.t = "null" -> <<"n", "u", "l", "l">>
    [] OTHER -> <<"N", "a", "N">>

\* the literal separator of a range label
Separator == <<" ", "t", "o", " ">>

\* parseInt(string) with no radix: leading white space and line terminators
\* are skipped, then an optional sign, then a "0x" or "0X" prefix selects radix
\* 16; the digits of the radix up to the first other character are the value,
\* and the result is NaN when there is none
\* White space and line terminators: space, tab, line feed, carriage return,
\* form feed, vertical tab (U+000B), no-break space (U+00A0), ogham space mark
\* (U+1680) and the byte order mark (U+FEFF).  The remaining space separators
\* (U+2000 to U+200A, U+202F, U+205F, U+3000) and U+2028, U+2029 cannot be
\* written in a string; strings of the model do not contain them.
\* A literal counts only when it is read as one character: where the text of
\* this module is decoded as ASCII, a character outside ASCII arrives as
\* several replacement characters (U+FFFD), which parseInt does not skip.
WhiteSpace ==
  {c \in {" ", "\t", "\n", "\r", "\f", "", " ", " ", "﻿"} :
     Len(c) = 1}

RECURSIVE SkipSpaces(_)
SkipSpaces(s) ==
  IF Len(s) > 0 /\ Head(s) \in WhiteSpace THEN SkipSpaces(Tail(s)) ELSE s

RECURSIVE LeadingDigits(_, _)
LeadingDigits(s, acc) ==
  IF Len(s) > 0 /\ IsDigit(Head(s))
  THEN LeadingDigits(Tail(s), acc * 10 + DigitVal(Head(s)))
  ELSE acc

HexLower == <<"0", "1", "2", "3", "4", "5", "6", "7", "8", "9",
              "a", "b", "c", "d", "e", "f">>
HexUpper == <<"0", "1", "2", "3", "4", "5", "6", "7", "8", "9",
              "A", "B", "C", "D", "E", "F">>
IsHexDigit(c) == \E d \in 1..16 : HexLower[d] = c \/ HexUpper[d] = c
HexVal(c) == (CHOOSE d \in 1..16 : HexLower[d] = c \/ HexUpper[d] = c) - 1

RECURSIVE LeadingHexDigits(_, _)
LeadingHexDigits(s, acc) ==
  IF Len(s) > 0 /\ IsHexDigit(Head(s))
  THEN LeadingHexDigits(Tail(s), acc * 16 + HexVal(Head(s)))
  ELSE acc

parseInt(s) ==
  LET body == SkipSpaces(s)
      neg == Len(body) > 0 /\ Head(body) = "-"
      signed == Len(body) > 0 /\ Head(body) \in {"-", "+"}
      rest == IF signed THEN Tail(body) ELSE body
      sign == IF neg THEN -1 ELSE 1
      hex == Len(rest) >= 2 /\ rest[1] = "0" /\ rest[2] \in {"x", "X"}
      digits == IF hex THEN Tail(Tail(rest)) ELSE rest
  IN IF hex
     THEN IF Len(digits) > 0 /\ IsHexDigit(Head(digits))
          THEN Whole(sign * LeadingHexDigits(digits, 0))
          ELSE NaN
     ELSE IF Len(digits) > 0 /\ IsDigit(Head(digits))
          THEN Whole(sign * LeadingDigits(digits, 0))
          ELSE NaN

\* the number a numeric string "[-]digits[.digit]" denotes (Number(string))
RECURSIVE AfterPoint(_)
AfterPoint(s) ==
  IF Len(s) = 0 THEN <<>>
  ELSE IF Head(s) = "." THEN Tail(s) ELSE AfterPoint(Tail(s))

NumberOf(v) ==
  IF v.t # "string" THEN v
  ELSE LET whole == parseInt(v.s)
           frac == AfterPoint(v.s)
           f == IF Len(frac) > 0 /\ IsDigit(Head(frac)) THEN DigitVal(Head(frac)) ELSE 0
           neg == Len(SkipSpaces(v.s)) > 0 /\ Head(SkipSpaces(v.s)) = "-"
       IN IF whole.t = "NaN" THEN NaN
          ELSE Num(whole.n + (IF neg THEN -f ELSE f))

\* ------------------------------------------------------------ options
\* an optional prop or field: absent (undefined) or present with a value
Absent == [present |-> FALSE, value |-> <<>>]
Present(x) == [present |-> TRUE, value |-> x]

\* JavaScript array read arr[i] (0-based); undefined outside the array
At(arr, i) == IF i + 1 \in 1..Len(arr) THEN arr[i + 1] ELSE Undefined

\* JavaScript array write arr[i] = v (0-based); the array grows with holes
ArraySet(arr, i, v) ==
  IF i + 1 <= Len(arr) THEN [arr EXCEPT ![i + 1] = v]
  ELSE arr \o [k \in 1..(i - Len(arr)) |-> Undefined] \o <<v>>

\* ------------------------------------------------------------ _fromColorMap
\* s.split(' to ').pop(): the text after the last separator found scanning
\* left to right without overlap
RECURSIVE SplitPop(_)
SplitPop(s) ==
  LET found == {i \in 1..(Len(s) - 3) : SubSeq(s, i, i + 3) = Separator}
  IN IF found = {} THEN s
     ELSE LET first == CHOOSE i \in found : \A j \in found : i <= j
          IN SplitPop(SubSeq(s, first + 4, Len(s)))

getEditableThreshold(k) ==
  IF Len(k) > 0 /\ k[1].t = "string" THEN Str(SplitPop(k[1].s)) ELSE Null

_fromColorMap(colorMap) ==
  LET thresholds == [i \in 1..Len(colorMap) |-> getEditableThreshold(colorMap[i])]
  IN IF Len(thresholds) = 0 THEN thresholds
     ELSE SubSeq(thresholds, 1, Len(thresholds) - 1)

\* ------------------------------------------------------------ double arithmetic
\* The arithmetic of _init is that of IEEE 754 binary64.  A double is held as
\* [neg, m, e], the number (-1)^neg * m * 2^e, where the magnitude m is a
\* natural number of at most Precision bits written as a sequence of limbs in
\* base Base, least significant first (<<>> is zero).  Every operation computes
\* its exact result and rounds it to the nearest double, a tie going to the even
\* magnitude.
Base == 2 ^ 15
LimbBits == 15
Precision == 53
\* zero limbs appended below a dividend, so that a quotient has more than
\* Precision bits
DivExtraLimbs == 5

RECURSIVE Trim(_)
Trim(m) ==
  IF Len(m) > 0 /\ m[Len(m)] = 0 THEN Trim(SubSeq(m, 1, Len(m) - 1)) ELSE m

RECURSIVE NatOf(_)
NatOf(k) == IF k = 0 THEN <<>> ELSE <<k % Base>> \o NatOf(k \div Base)

RECURSIVE IntOf(_)
IntOf(m) == IF Len(m) = 0 THEN 0 ELSE Head(m) + Base * IntOf(Tail(m))

Zeros(k) == [i \in 1..k |-> 0]

RECURSIVE MulSmall(_, _, _)
MulSmall(m, k, carry) ==
  IF Len(m) = 0 THEN NatOf(carry)
  ELSE LET p == Head(m) * k + carry
       IN <<p % Base>> \o MulSmall(Tail(m), k, p \div Base)

\* quotient and remainder of m by the small divisor d
RECURSIVE DivSmall(_, _)
DivSmall(m, d) ==
  IF Len(m) = 0 THEN [q |-> <<>>, r |-> 0]
  ELSE LET hi == DivSmall(Tail(m), d)
           cur == hi.r * Base + Head(m)
       IN [q |-> <<cur \div d>> \o hi.q, r |-> cur % d]

RECURSIVE AddNat(_, _, _)
AddNat(a, b, carry) ==
  IF Len(a) = 0 /\ Len(b) = 0 THEN NatOf(carry)
  ELSE LET x == IF Len(a) = 0 THEN 0 ELSE Head(a)
           y == IF Len(b) = 0 THEN 0 ELSE Head(b)
           t == x + y + carry
       IN <<t % Base>> \o AddNat(IF Len(a) = 0 THEN a ELSE Tail(a),
                                 IF Len(b) = 0 THEN b ELSE Tail(b),
                                 t \div Base)

\* a - b for a >= b
RECURSIVE SubNat(_, _, _)
SubNat(a, b, borrow) ==
  IF Len(a) = 0 THEN <<>>
  ELSE LET y == IF Len(b) = 0 THEN 0 ELSE Head(b)
           t == Head(a) - y - borrow
       IN <<t % Base>> \o SubNat(Tail(a),
                                 IF Len(b) = 0 THEN b ELSE Tail(b),
                                 IF t < 0 THEN 1 ELSE 0)

RECURSIVE LessNat(_, _)
LessNat(a, b) ==
  IF Len(a) # Len(b) THEN Len(a) < Len(b)
  ELSE IF Len(a) = 0 THEN FALSE
  ELSE IF a[Len(a)] # b[Len(b)] THEN a[Len(a)] < b[Len(b)]
  ELSE LessNat(SubSeq(a, 1, Len(a) - 1), SubSeq(b, 1, Len(b) - 1))

\* m * 2^s
ShiftLeft(m, s) ==
  IF Len(m) = 0 THEN m
  ELSE Zeros(s \div LimbBits) \o MulSmall(m, 2 ^ (s % LimbBits), 0)

\* floor(m / 2^s), and whether a one bit was shifted out
ShiftRight(m, s) ==
  LET limbs == IF s \div LimbBits < Len(m) THEN s \div LimbBits ELSE Len(m)
      kept == DivSmall(SubSeq(m, limbs + 1, Len(m)), 2 ^ (s % LimbBits))
  IN [q |-> Trim(kept.q),
      sticky |-> kept.r # 0 \/ \E i \in 1..limbs : m[i] # 0]

\* number of bits of m
BitLen(m) ==
  IF Len(m) = 0 THEN 0
  ELSE LimbBits * (Len(m) - 1)
         + (CHOOSE b \in 1..LimbBits : 2 ^ (b - 1) <= m[Len(m)] /\ m[Len(m)] < 2 ^ b)

\* the double nearest to (-1)^neg * (m + rest) * 2^e, where 0 <= rest < 1 and
\* sticky tells whether rest > 0; a tie goes to the even magnitude
RoundToDouble(neg, m, e, sticky) ==
  IF BitLen(m) <= Precision THEN [neg |-> neg, m |-> m, e |-> e]
  ELSE LET s == BitLen(m) - Precision
           withGuard == ShiftRight(m, s - 1)
           guard == Head(withGuard.q) % 2 = 1
           q == ShiftRight(withGuard.q, 1).q
           odd == Head(q) % 2 = 1
           up == guard /\ (withGuard.sticky \/ sticky \/ odd)
       IN [neg |-> neg, m |-> IF up THEN AddNat(q, <<1>>, 0) ELSE q, e |-> e + s]

\* the double of the integer k
DoubleOfInt(k) == [neg |-> k < 0, m |-> NatOf(Abs(k)), e |-> 0]

\* x / d for a double x and an integer d > 0
DivideByInt(x, d) ==
  IF Len(x.m) = 0 THEN x
  ELSE LET qr == DivSmall(Zeros(DivExtraLimbs) \o x.m, d)
       IN RoundToDouble(x.neg, Trim(qr.q), x.e - DivExtraLimbs * LimbBits, qr.r # 0)

\* x * k for a double x and an integer k >= 0
TimesInt(x, k) == RoundToDouble(x.neg, Trim(MulSmall(x.m, k, 0)), x.e, FALSE)

\* x + y
Plus(x, y) ==
  LET e == IF x.e <= y.e THEN x.e ELSE y.e
      mx == ShiftLeft(x.m, x.e - e)
      my == ShiftLeft(y.m, y.e - e)
  IN IF x.neg = y.neg THEN RoundToDouble(x.neg, AddNat(mx, my, 0), e, FALSE)
     ELSE IF LessNat(mx, my) THEN RoundToDouble(y.neg, Trim(SubNat(my, mx, 0)), e, FALSE)
     ELSE RoundToDouble(x.neg /\ mx # my, Trim(SubNat(mx, my, 0)), e, FALSE)

\* x - y
Minus(x, y) == Plus(x, [y EXCEPT !.neg = ~y.neg])

\* the double a number value holds: the one nearest to n / 10
DoubleOf(n) == DivideByInt(DoubleOfInt(n), 10)

\* Number.prototype.toFixed(digits) read back as a number: the integer k for
\* which k / 10^digits is nearest to x, the larger magnitude on a tie
toFixed(x, digits) ==
  LET m == Trim(MulSmall(x.m, 10 ^ digits, 0))
      k == IF x.e >= 0 THEN IntOf(ShiftLeft(m, x.e))
           ELSE LET halves == IntOf(ShiftRight(m, (-x.e) - 1).q)
                IN (halves \div 2) + (halves % 2)
  IN IF x.neg THEN -k ELSE k

\* ------------------------------------------------------------ _init
\* the TypeError a property read of undefined throws
TypeError == [t |-> "TypeError", n |-> 0, s |-> <<>>]

\* if (Number.isInteger(num)) return 0;
\* return num.toString().split('.')[1].length;
\*   undefined and null have no toString, and "NaN" has no '.': a TypeError
getDecimalPlaces(num) ==
  IF num.t # "number" THEN TypeError
  ELSE IF num.n % 10 = 0 THEN Whole(0)
  ELSE Whole(Len(AfterPoint(NumberToString(num.n))))

\* roundDown(num) for the double num:
\*   decimals ? parseFloat(num.toFixed(decimals)) : parseInt(num.toFixed())
roundDown(decimals, num) ==
  IF decimals # 0 THEN Num(toFixed(num, decimals)) ELSE Whole(toFixed(num, 0))

coerce(v) == IF v.t = "string" THEN parseInt(v.s) ELSE v

\* the thresholds, or TypeError when getDecimalPlaces throws
_init(colorDomain, length) ==
  IF ~colorDomain.present THEN <<>>
  ELSE LET min == coerce(At(colorDomain.value, 0))
           max == coerce(At(colorDomain.value, 1))
           placesMin == getDecimalPlaces(min)
           placesMax == getDecimalPlaces(max)
       IN IF placesMin.t = "TypeError" \/ placesMax.t = "TypeError" THEN TypeError
          ELSE LET decimals == (IF placesMin.n >= placesMax.n
                                THEN placesMin.n ELSE placesMax.n) \div 10
                   increment ==
                     roundDown(decimals,
                               DivideByInt(Minus(DoubleOf(max.n), DoubleOf(min.n)), length))
               IN [j \in 1..length |->
                     IF j - 1 = length - 1 THEN max
                     ELSE roundDown(decimals,
                                    Plus(DoubleOf(min.n),
                                         TimesInt(DoubleOf(increment.n), j)))]

\* ------------------------------------------------------------ filteredColorRange
\* filteredColorRange with the 'all' type forgotten
RECURSIVE filteredColorRangeNoAll(_, _, _)
filteredColorRangeNoAll(ranges, type, steps) ==
  IF Len(ranges) = 0 THEN <<>>
  ELSE LET colorRange == Head(ranges)
       IN (IF type = colorRange.type /\ steps = Len(colorRange.colors)
           THEN <<colorRange>> ELSE <<>>)
            \o filteredColorRangeNoAll(Tail(ranges), type, steps)

\* COLOR_RANGES.filter(...) for the configured type and steps; ranges is COLOR_RANGES
RECURSIVE filteredColorRange(_, _, _)
filteredColorRange(ranges, type, steps) ==
  IF Len(ranges) = 0 THEN <<>>
  ELSE LET colorRange == Head(ranges)
           isType == type = "all" \/ type = colorRange.type
           isStep == steps = Len(colorRange.colors)
       IN (IF isType /\ isStep THEN <<colorRange>> ELSE <<>>)
            \o filteredColorRange(Tail(ranges), type, steps)

\* ALL_TYPES and ALL_STEPS, the options of the two select controls
ALL_TYPES(ranges) ==
  {ranges[i].type : i \in {j \in 1..Len(ranges) : ranges[j].type # ""}}
    \cup {"all", "custom"}

ALL_STEPS(ranges) ==
  {Len(ranges[i].colors) : i \in 1..Len(ranges)}

\* ------------------------------------------------------------ color map rebuild
\* colorMapOf with the lower bound of a range read at i instead of i - 1
colorMapOfShifted(colors, colorDomain, colorThresholds) ==
  LET minima == At(colorDomain, 0)
      maxima == At(colorDomain, Len(colorDomain) - 1)
  IN [j \in 1..Len(colors) |->
        LET i == j - 1
            minOfRange == IF i = 0 THEN minima ELSE At(colorThresholds, i)
            maxOfRange == IF i = Len(colors) - 1 THEN maxima ELSE At(colorThresholds, i)
        IN <<Str(TemplateString(minOfRange) \o Separator \o TemplateString(maxOfRange)),
             colors[j]>>]

\* colors.map((c, i, self) => [`${minOfRange} to ${maxOfRange}`, c])
colorMapOf(colors, colorDomain, colorThresholds) ==
  LET minima == At(colorDomain, 0)
      maxima == At(colorDomain, Len(colorDomain) - 1)
  IN [j \in 1..Len(colors) |->
        LET i == j - 1
            minOfRange == IF i = 0 THEN minima ELSE At(colorThresholds, i - 1)
            maxOfRange == IF i = Len(colors) - 1 THEN maxima ELSE At(colorThresholds, i)
        IN <<Str(TemplateString(minOfRange) \o Separator \o TemplateString(maxOfRange)),
             colors[j]>>]

\* ------------------------------------------------------------ the store
\* {...old, ...new}
Merge(old, new) ==
  [k \in (DOMAIN old) \cup (DOMAIN new) |-> IF k \in DOMAIN new THEN new[k] ELSE old[k]]

\* The parent's handling of setColorPaletteUI(newConfig): a deep-partial update of
\* the panel configuration; nested objects are merged, other fields replaced.
setColorPaletteUI(ui, newConfig) ==
  [k \in (DOMAIN ui) \cup (DOMAIN newConfig) |->
     IF k \notin DOMAIN newConfig THEN ui[k]
     ELSE IF k \in {"colorRangeConfig", "customPalette"} /\ k \in DOMAIN ui
          THEN Merge(ui[k], newConfig[k])
          ELSE newConfig[k]]

\* ------------------------------------------------------------ inputs
OneChar(c) == Str(<<c>>)

\* the color domains the parent passes: absent, numbers, numeric strings
Domains ==
  { Absent,
    Present(<<Whole(0), Whole(2)>>),
    Present(<<Whole(0), Num(25)>>),
    Present(<<OneChar("0"), Str(<<"2", ".", "5">>)>>) }

\* the raw text of a threshold input (e.target.value)
RawValues == { OneChar("1"), Str(<<"1", " ", "t", "o", " ", "2">>) }

\* a color sequence of n colors
Palette(n) == [i \in 1..n |-> i]

\* catalogs standing for COLOR_RANGES of @kepler.gl/constants
CatalogA ==
  << [name |-> "a", type |-> "sequential", colors |-> Palette(2)],
     [name |-> "b", type |-> "diverging", colors |-> Palette(2)],
     [name |-> "c", type |-> "sequential", colors |-> Palette(3)],
     [name |-> "d", type |-> "sequential", colors |-> Palette(2)] >>

CatalogB ==
  << [name |-> "d", type |-> "sequential", colors |-> Palette(2)],
     [name |-> "e", type |-> "", colors |-> Palette(3)],
     [name |-> "a", type |-> "sequential", colors |-> Palette(2)] >>

Catalogs == {CatalogA, CatalogB}

\* ------------------------------------------------------------ CONFIG_SETTINGS
\* label "" stands for a setting without a label; the options are optionsOf
CONFIG_SETTINGS ==
  [type |-> [label |-> "", type |-> "select"],
   steps |-> [label |-> "", type |-> "select"],
   reversed |-> [label |-> "", type |-> "switch"],
   custom |-> [label |-> "customPalette", type |-> "switch"]]

\* the property names CONFIG_SETTINGS, an object literal, inherits from
\* Object.prototype
ObjectPrototypeKeys ==
  {"constructor", "toString", "toLocaleString", "valueOf", "hasOwnProperty",
   "isPrototypeOf", "propertyIsEnumerable", "__proto__", "__defineGetter__",
   "__defineSetter__", "__lookupGetter__", "__lookupSetter__"}

\* CONFIG_SETTINGS[key]: an own setting, an inherited value (a function or
\* Object.prototype, with neither label nor type: both read as undefined, "")
\* or undefined
settingOf(key) ==
  IF key \in DOMAIN CONFIG_SETTINGS THEN Present(CONFIG_SETTINGS[key])
  ELSE IF key \in ObjectPrototypeKeys THEN Present([label |-> "", type |-> ""])
  ELSE Absent

\* a key the settings table does not know, and one it inherits
UnknownKey == "colorBlindSafe"
InheritedKey == "constructor"
ExtraKeys == {{}, {UnknownKey}, {InheritedKey}}

\* ------------------------------------------------------------ state
VARIABLES
  COLOR_RANGES,     \* the palette catalog (a module constant of the program)
  colorPaletteUI,   \* props.colorPaletteUI: the parent's configuration object itself
  colorDomain,      \* props.colorDomain
  colorThresholds,  \* state.colorThresholds
  isCustomDomain,   \* state.isCustomDomain
  pc,               \* position inside _setColorThresholds, "idle" between handlers
  edit,             \* locals of a running _setColorThresholds
  view,             \* what the last render() produced
  constructed,      \* the inputs and result of the last state initialisation
  hist,             \* the last handler: what it was given and what the parent saw
  ops               \* handlers run since mount

vars ==
  <<COLOR_RANGES, colorPaletteUI, colorDomain, colorThresholds, isCustomDomain,
    pc, edit, view, constructed, hist, ops>>

\* ------------------------------------------------------------ render
\* controls holds, for every PaletteConfig rendered, its label
\* (CONFIG_SETTINGS[key].label || key) and the type of its input: "select",
\* "switch", or "" when only the label is rendered
render(ui, ranges) ==
  LET colorRangeConfig == ui.colorRangeConfig
      filteredColorRanges ==
        filteredColorRange(ranges, colorRangeConfig.type, colorRangeConfig.steps)
      keys == IF colorRangeConfig.custom THEN {"custom"} ELSE DOMAIN colorRangeConfig
  IN IF \E key \in keys : ~settingOf(key).present
     THEN \* CONFIG_SETTINGS[key].label of undefined: TypeError, nothing is rendered
          [status |-> "error", controls |-> [key \in {} |-> [label |-> "", type |-> ""]],
           mode |-> "none", colorRanges |-> <<>>]
     ELSE [status |-> "ok",
           controls |-> [key \in keys |->
                          [label |-> IF settingOf(key).value.label # ""
                                     THEN settingOf(key).value.label ELSE key,
                           type |-> settingOf(key).value.type]],
           mode |-> IF colorRangeConfig.custom THEN "custom" ELSE "predefined",
           colorRanges |-> filteredColorRanges]

\* ------------------------------------------------------------ construction
\* the state initialiser of the component (lines 117-120); a TypeError of _init
\* is thrown by the constructor and stands in place of colorThresholds (the
\* domains of the model are numeric, so the constructor returns)
stateOf(ui, domain) ==
  LET colorMap == ui.customPalette.colorMap
  IN [isCustomDomain |-> colorMap.present,
      colorThresholds |-> IF colorMap.present THEN _fromColorMap(colorMap.value)
                          ELSE _init(domain, ui.colorRangeConfig.steps)]

constructedOf(ui, domain, state) ==
  [mode |-> IF ui.customPalette.colorMap.present THEN "edit" ELSE "create",
   colorDomain |-> domain,
   steps |-> ui.colorRangeConfig.steps,
   colorMap |-> ui.customPalette.colorMap,
   result |-> state.colorThresholds]

histOf(op, index, value, invoked, ui, thresholds, seen) ==
  [op |-> op, index |-> index, value |-> value, invoked |-> invoked,
   startUI |-> ui, startThresholds |-> thresholds, seenUI |-> seen]

NoEdit == [colorThresholds |-> <<>>, batched |-> FALSE]

InitialUI(steps, custom, n, extra) ==
  [colorRangeConfig |->
     [k \in {"type", "steps", "reversed", "custom"} \cup extra |->
        CASE k = "type" -> "all"
          [] k = "steps" -> steps
          [] k = "reversed" -> FALSE
          [] k = "custom" -> custom
          [] OTHER -> TRUE],
   customPalette |-> [colors |-> Palette(n), colorMap |-> Absent],
   showSketcher |-> FALSE]

Init ==
  /\ COLOR_RANGES \in Catalogs
  /\ colorDomain \in Domains
  /\ \E steps \in 1..MaxSteps, custom \in BOOLEAN, n \in 1..MaxColors, extra \in ExtraKeys :
       colorPaletteUI = InitialUI(steps, custom, n, extra)
  /\ \E state \in {stateOf(colorPaletteUI, colorDomain)} :
       /\ colorThresholds = state.colorThresholds
       /\ isCustomDomain = state.isCustomDomain
       /\ constructed = constructedOf(colorPaletteUI, colorDomain, state)
  /\ pc = "idle"
  /\ edit = NoEdit
  /\ view = render(colorPaletteUI, COLOR_RANGES)
  /\ hist = histOf("mount", 0, Undefined, FALSE, colorPaletteUI, colorThresholds, colorPaletteUI)
  /\ ops = 0

\* ------------------------------------------------------------ handlers
Idle == pc = "idle" /\ ops < MaxOps
Shown == Idle /\ view.status = "ok"
Custom == Shown /\ view.mode = "custom"

\* a handler whose whole effect is one call of props.setColorPaletteUI(newConfig)
Callback(op, newConfig) ==
  /\ colorPaletteUI' = setColorPaletteUI(colorPaletteUI, newConfig)
  /\ hist' = histOf(op, 0, Undefined, TRUE, colorPaletteUI, colorThresholds, colorPaletteUI)
  /\ view' = render(colorPaletteUI', COLOR_RANGES)
  /\ ops' = ops + 1
  /\ UNCHANGED <<COLOR_RANGES, colorDomain, colorThresholds, isCustomDomain, pc, edit,
                 constructed>>

\* the values the control of a key can hand to onChange: an option of a select,
\* the negation of the current value of a switch
optionsOf(key) ==
  IF key = "type" THEN ALL_TYPES(COLOR_RANGES)
  ELSE IF key = "steps" THEN ALL_STEPS(COLOR_RANGES)
  ELSE {~colorPaletteUI.colorRangeConfig[key]}

\* _updateConfig({key, value}) -> _setColorRangeConfig({[key]: value})
_updateConfig ==
  /\ Shown
  /\ \E key \in {k \in DOMAIN view.controls : view.controls[k].type # ""} :
       \E value \in optionsOf(key) :
       Callback("updateConfig",
                [k \in {"colorRangeConfig"} |-> [k2 \in {key} |-> value]])

_onSetCustomPalette ==
  /\ Custom
  /\ \E n \in 1..MaxColors :
       Callback("setCustomPalette",
                [k \in {"customPalette"} |-> [colors |-> Palette(n)]])

_onCustomPaletteCancel ==
  /\ Custom
  /\ Callback("cancel",
              [k \in {"showSketcher", "colorRangeConfig"} |->
                 IF k = "showSketcher" THEN FALSE ELSE [custom |-> FALSE]])

_onToggleSketcher ==
  /\ Custom
  /\ \E val \in BOOLEAN :
       Callback("toggleSketcher", [k \in {"showSketcher"} |-> val])

\* the custom-domain switch: this.setState({isCustomDomain: !isCustomDomain})
toggleCustomDomain ==
  /\ Custom
  /\ isCustomDomain' = ~isCustomDomain
  /\ hist' = histOf("toggleCustomDomain", 0, Undefined, FALSE,
                    colorPaletteUI, colorThresholds, colorPaletteUI)
  /\ ops' = ops + 1
  /\ UNCHANGED <<COLOR_RANGES, colorPaletteUI, colorDomain, colorThresholds, pc, edit,
                 view, constructed>>

\* the guard of _setColorThresholds dropped
hasColorDomainAlways(domain) == TRUE

\* line 219: if (this.props.colorDomain)
hasColorDomain(domain) == domain.present

\* the indexes the editor passes: one input per color but the last ("the last one
\* is not editable as it is the maxima"), and index 0 in any case
editableIndexes(colors) ==
  {0} \cup {i \in 0..(Len(colors) - 2) : TRUE}

\* _setColorThresholds(index, {target: {value}}), lines 219-222: the guard, the
\* copy, the write and setState.  setState takes effect at once, or (batched = TRUE)
\* when the handler returns, as React schedules it.
_setColorThresholds ==
  /\ Custom
  /\ \E index \in editableIndexes(colorPaletteUI.customPalette.colors),
        value \in RawValues, batched \in BOOLEAN :
       IF ~hasColorDomain(colorDomain)
       THEN /\ hist' = histOf("setColorThresholds", index, value, FALSE,
                              colorPaletteUI, colorThresholds, colorPaletteUI)
            /\ ops' = ops + 1
            /\ UNCHANGED <<COLOR_RANGES, colorPaletteUI, colorDomain, colorThresholds,
                           isCustomDomain, pc, edit, view, constructed>>
       ELSE /\ edit' = [colorThresholds |-> ArraySet(colorThresholds, index, value),
                        batched |-> batched]
            /\ colorThresholds' = IF batched THEN colorThresholds ELSE edit'.colorThresholds
            /\ hist' = histOf("setColorThresholds", index, value, FALSE,
                              colorPaletteUI, colorThresholds, colorPaletteUI)
            /\ pc' = "assign"
            /\ ops' = ops + 1
            /\ UNCHANGED <<COLOR_RANGES, colorPaletteUI, colorDomain, isCustomDomain,
                           view, constructed>>

\* lines 224-237: the color map is rebuilt and assigned to
\* colorPaletteUI.customPalette.colorMap, a field of the object the parent holds
assignColorMap ==
  /\ pc = "assign"
  /\ colorPaletteUI' =
       [colorPaletteUI EXCEPT !.customPalette.colorMap =
          Present(colorMapOf(colorPaletteUI.customPalette.colors, colorDomain.value,
                             edit.colorThresholds))]
  /\ pc' = "callback"
  /\ UNCHANGED <<COLOR_RANGES, colorDomain, colorThresholds, isCustomDomain, edit, view,
                 constructed, hist, ops>>

\* line 239: this.props.setColorPaletteUI(colorPaletteUI); the handler returns, a
\* batched setState is applied and the component renders again
callSetColorPaletteUI ==
  /\ pc = "callback"
  /\ hist' = [hist EXCEPT !.invoked = TRUE, !.seenUI = colorPaletteUI]
  /\ colorPaletteUI' = setColorPaletteUI(colorPaletteUI, colorPaletteUI)
  /\ colorThresholds' = edit.colorThresholds
  /\ view' = render(colorPaletteUI', COLOR_RANGES)
  /\ pc' = "idle"
  /\ edit' = NoEdit
  /\ UNCHANGED <<COLOR_RANGES, colorDomain, isCustomDomain, constructed, ops>>

\* ------------------------------------------------------------ the parent
\* the parent mounts the component again: the state initialiser runs anew
mount ==
  /\ Idle
  /\ \E state \in {stateOf(colorPaletteUI, colorDomain)} :
       /\ colorThresholds' = state.colorThresholds
       /\ isCustomDomain' = state.isCustomDomain
       /\ constructed' = constructedOf(colorPaletteUI, colorDomain, state)
  /\ view' = render(colorPaletteUI, COLOR_RANGES)
  /\ hist' = histOf("mount", 0, Undefined, FALSE, colorPaletteUI, colorThresholds',
                    colorPaletteUI)
  /\ ops' = ops + 1
  /\ UNCHANGED <<COLOR_RANGES, colorPaletteUI, colorDomain, pc, edit>>

\* the parent passes another colorDomain
setColorDomain ==
  /\ Shown
  /\ \E d \in Domains \ {colorDomain} : colorDomain' = d
  /\ hist' = histOf("colorDomain", 0, Undefined, FALSE, colorPaletteUI, colorThresholds,
                    colorPaletteUI)
  /\ ops' = ops + 1
  /\ UNCHANGED <<COLOR_RANGES, colorPaletteUI, colorThresholds, isCustomDomain, pc, edit,
                 view, constructed>>

Next ==
  \/ _updateConfig
  \/ _onSetCustomPalette
  \/ _onCustomPaletteCancel
  \/ _onToggleSketcher
  \/ toggleCustomDomain
  \/ _setColorThresholds
  \/ assignColorMap
  \/ callSetColorPaletteUI
  \/ mount
  \/ setColorDomain

Spec == Init /\ [][Next]_vars

\* ------------------------------------------------------------ properties
Edited == hist.op = "setColorThresholds" /\ hist.invoked /\ pc = "idle"
customPalette == colorPaletteUI.customPalette
IsSuffix(suffix, s) ==
  Len(suffix) <= Len(s) /\ SubSeq(s, Len(s) - Len(suffix) + 1, Len(s)) = suffix

\* C1: after a threshold edit made with a domain present, the color map has one
\* entry per custom-palette color, in color order, and entry i is
\* ("<lower> to <upper>", color i): lower is the domain's first element for i = 0
\* and the updated threshold i-1 otherwise, upper is the domain's last element for
\* the last i and the updated threshold i otherwise.
C1_ColorMapRebuilt ==
  Edited =>
    LET colors == customPalette.colors
        colorMap == customPalette.colorMap
        domain == colorDomain.value
        lower(i) == IF i = 0 THEN domain[1] ELSE At(colorThresholds, i - 1)
        upper(i) == IF i = Len(colors) - 1 THEN domain[Len(domain)]
                    ELSE At(colorThresholds, i)
    IN /\ colorDomain.present
       /\ colorMap.present
       /\ Len(colorMap.value) = Len(colors)
       /\ colorThresholds = ArraySet(hist.startThresholds, hist.index, hist.value)
       /\ \A i \in 0..(Len(colors) - 1) :
            /\ colorMap.value[i + 1][2] = colors[i + 1]
            /\ colorMap.value[i + 1][1] =
                 Str(TemplateString(lower(i)) \o <<" ", "t", "o", " ">>
                       \o TemplateString(upper(i)))

\* a three-color palette whose middle threshold was edited
C1_Witness ==
  /\ Edited
  /\ Len(customPalette.colors) = 3
  /\ hist.index = 1
  /\ Len(hist.startThresholds) >= 2

\* C2: a threshold edit made while the domain is absent changes neither the local
\* thresholds nor the color map (nor anything else of the configuration), and does
\* not invoke setColorPaletteUI.
C2_NoDomainNoOp ==
  (hist.op = "setColorThresholds" /\ ~colorDomain.present) =>
    /\ pc = "idle"
    /\ ~hist.invoked
    /\ colorThresholds = hist.startThresholds
    /\ colorPaletteUI = hist.startUI
    /\ customPalette.colorMap = hist.startUI.customPalette.colorMap

\* an edit without a domain on a component that holds thresholds
C2_Witness ==
  /\ hist.op = "setColorThresholds"
  /\ ~colorDomain.present
  /\ Len(colorThresholds) > 0

\* C3: create-mode initialisation returns the empty sequence without a domain, and
\* otherwise exactly `steps` values of which the last is the domain's maximum,
\* for domains given as numbers or as numeric strings.
C3_InitLengthAndMax ==
  constructed.mode = "create" =>
    IF ~constructed.colorDomain.present THEN constructed.result = <<>>
    ELSE /\ Len(constructed.result) = constructed.steps
         /\ constructed.result[constructed.steps]
              = NumberOf(constructed.colorDomain.value[2])

\* C4: after any threshold edit, _fromColorMap of the rebuilt color map is the
\* sequence of the string forms of thresholds 0 .. N-2 (N the number of colors).
C4_RoundTrip ==
  Edited =>
    _fromColorMap(customPalette.colorMap.value) =
      [j \in 1..(Len(customPalette.colors) - 1) |->
         Str(TemplateString(At(colorThresholds, j - 1)))]

\* C5: for the catalog, the configured type and the configured step count, the
\* filter returns exactly the catalog entries whose type is the configured type
\* (any type for "all") and whose number of colors is the configured step count,
\* in catalog order; and these are the palettes a completed render holds.
C5_FilterExact ==
  LET type == colorPaletteUI.colorRangeConfig.type
      steps == colorPaletteUI.colorRangeConfig.steps
      filtered == filteredColorRange(COLOR_RANGES, type, steps)
      matching == {i \in 1..Len(COLOR_RANGES) :
                     /\ type = "all" \/ COLOR_RANGES[i].type = type
                     /\ Len(COLOR_RANGES[i].colors) = steps}
      nth(k) == CHOOSE i \in matching : Cardinality({j \in matching : j <= i}) = k
  IN /\ Len(filtered) = Cardinality(matching)
     /\ \A k \in 1..Len(filtered) : filtered[k] = COLOR_RANGES[nth(k)]
     /\ view.status = "ok" => view.colorRanges = filtered

\* a typed filter that keeps several entries and drops others
C5_Witness ==
  /\ view.status = "ok"
  /\ colorPaletteUI.colorRangeConfig.type = "sequential"
  /\ Len(view.colorRanges) >= 2
  /\ Len(view.colorRanges) < Len(COLOR_RANGES)

\* C6: rendering, not in custom mode, a colorRangeConfig with a key outside the
\* known settings (type, steps, reversed, custom) completes, renders nothing for
\* that key and still renders the controls of the known keys.
C6_UnknownKeyTolerated ==
  \A key \in DOMAIN colorPaletteUI.colorRangeConfig \ DOMAIN CONFIG_SETTINGS :
    ~colorPaletteUI.colorRangeConfig.custom =>
      /\ view.status = "ok"
      /\ key \notin DOMAIN view.controls
      /\ DOMAIN CONFIG_SETTINGS \subseteq DOMAIN view.controls

\* C7: in every state, also inside a threshold edit, when the custom palette has a
\* color map the upper bound in the label of each entry i but the last is local
\* threshold i.
C7_NeverDiverge ==
  customPalette.colorMap.present =>
    \A i \in 0..(Len(customPalette.colorMap.value) - 2) :
      IsSuffix(Separator \o TemplateString(At(colorThresholds, i)),
               customPalette.colorMap.value[i + 1][1].s)

\* C8: the parent's configuration object is the same when setColorPaletteUI is
\* invoked as it was when the operation started, and an operation that does not
\* invoke the callback leaves it unchanged.
C8_OnlyThroughCallback ==
  /\ pc = "callback" => colorPaletteUI = hist.startUI
  /\ hist.invoked => hist.seenUI = hist.startUI
  /\ (pc = "idle" /\ ~hist.invoked) => colorPaletteUI = hist.startUI

\* min and max as _init reads them, and whether both are whole numbers
InitMin == coerce(constructed.colorDomain.value[1])
InitMax == coerce(constructed.colorDomain.value[2])
IntegralInit ==
  /\ constructed.mode = "create"
  /\ constructed.colorDomain.present
  /\ InitMin.t = "number" /\ InitMin.n % 10 = 0
  /\ InitMax.t = "number" /\ InitMax.n % 10 = 0

\* (max - min) / steps truncated to an integer, in whole units
Truncated(a, b) == IF a >= 0 THEN a \div b ELSE -((-a) \div b)

\* C9: with integral min and max the increment is (max - min) / steps truncated to
\* an integer, and the value at every index i < steps - 1 is min + increment * (i + 1).
C9_TruncatedIncrement ==
  IntegralInit =>
    LET increment == Truncated((InitMax.n - InitMin.n) \div 10, constructed.steps)
    IN \A i \in 0..(constructed.steps - 2) :
         constructed.result[i + 1] = Whole((InitMin.n \div 10) + increment * (i + 1))

\* C10: for an integral domain with min <= max the initial thresholds are
\* non-decreasing and all within [min, max].
C10_MonotoneWithinDomain ==
  (IntegralInit /\ InitMin.n <= InitMax.n) =>
    /\ \A j \in 1..Len(constructed.result) :
         InitMin.n <= constructed.result[j].n /\ constructed.result[j].n <= InitMax.n
    /\ \A j \in 1..(Len(constructed.result) - 1) :
         constructed.result[j].n <= constructed.result[j + 1].n

====
